---- MODULE Spec2Model ----
(***************************************************************************)
(* gen_password: two single-pass command line password generators.        *)
(*                                                                         *)
(*   ultra_password.py  N groups of 4 symbols drawn from a named charset   *)
(*   xkcd_password.py   N words drawn from a wordlist file                 *)
(*                                                                         *)
(* Python strings are modelled as sequences of one-character strings, so   *)
(* that str.strip, str.split, str.join, str.translate and int() are        *)
(* computed character by character.  Floats are modelled in binary fixed   *)
(* point with FracBits fractional bits.                                    *)
(***************************************************************************)
EXTENDS Integers, Sequences, FiniteSets, TLC

VARIABLES
    script,             \* which of the two scripts is run
    pc,                 \* position in the script's __main__ block
    argv,               \* the command line: which arguments are given, and their text
    fs,                 \* the wordlist file named by --wordlist (xkcd_password)
    args,               \* the Namespace returned by parse_args()
    num_words,          \* both scripts: args.NUM_WORDS
    charset,            \* ultra_password: args.charset.value
    words,              \* xkcd_password: the list returned by load()
    entropy_per_char,   \* ultra_password
    entropy_per_word,   \* ultra_password
    entropy,            \* xkcd_password
    pw_entropy,         \* both scripts
    groups,             \* the items the generator expression has yielded to join, in order
    password,           \* both scripts
    stdout,             \* what has been printed
    stderr,             \* what has been written to the error stream
    exit_status         \* -1 while running, then the process's exit status

vars == <<script, pc, argv, fs, args, num_words, charset, words, entropy_per_char,
          entropy_per_word, entropy, pw_entropy, groups, password, stdout,
          stderr, exit_status>>

----------------------------------------------------------------------------
(* Bounds of the model *)

\* A wordlist file has at most MaxLines lines.
MaxLines == 3

\* secrets.choice over a sequence of at most MaxFullDraw entries may return any
\* entry; over a longer sequence the model samples the first and the last.
MaxFullDraw == 4

\* Fractional bits of the fixed-point numbers that stand for Python floats.
FracBits == 12

----------------------------------------------------------------------------
(* Characters and Python string primitives *)

\* The code points chr and ord are used on: the ASCII digits and letters.
AsciiDigit == <<"0", "1", "2", "3", "4", "5", "6", "7", "8", "9">>

AsciiUpper ==
    <<"A", "B", "C", "D", "E", "F", "G", "H", "I", "J", "K", "L", "M",
      "N", "O", "P", "Q", "R", "S", "T", "U", "V", "W", "X", "Y", "Z">>

AsciiLower ==
    <<"a", "b", "c", "d", "e", "f", "g", "h", "i", "j", "k", "l", "m",
      "n", "o", "p", "q", "r", "s", "t", "u", "v", "w", "x", "y", "z">>

IndexOf(s, c) == CHOOSE i \in 1..Len(s) : s[i] = c

InSeq(s, c) == \E i \in 1..Len(s) : s[i] = c

ord(c) ==
    IF InSeq(AsciiDigit, c) THEN 47 + IndexOf(AsciiDigit, c)
    ELSE IF InSeq(AsciiUpper, c) THEN 64 + IndexOf(AsciiUpper, c)
    ELSE 96 + IndexOf(AsciiLower, c)

chr(i) ==
    IF i \in 48..57 THEN AsciiDigit[i - 47]
    ELSE IF i \in 65..90 THEN AsciiUpper[i - 64]
    ELSE AsciiLower[i - 96]

\* "".join(map(chr, range(lo, hi)))
RECURSIVE JoinChrRange(_, _)
JoinChrRange(lo, hi) ==
    IF lo >= hi THEN <<>> ELSE <<chr(lo)>> \o JoinChrRange(lo + 1, hi)

\* "".join(map(chr, range(ord(a), ord(b)+1)))
CharRange(a, b) == JoinChrRange(ord(a), ord(b) + 1)

\* s.translate(str.maketrans({c: None for c in deleted}))
translate(s, deleted) == SelectSeq(s, LAMBDA c : c \notin deleted)

\* The characters str.strip() and str.split() treat as whitespace.
Whitespace == {" ", "\t", "\n", "\r", "\f"}

Digits == {"0", "1", "2", "3", "4", "5", "6", "7", "8", "9"}

RECURSIVE lstrip(_)
lstrip(s) ==
    IF s # <<>> /\ Head(s) \in Whitespace THEN lstrip(Tail(s)) ELSE s

RECURSIVE rstrip(_)
rstrip(s) ==
    IF s # <<>> /\ s[Len(s)] \in Whitespace
    THEN rstrip(SubSeq(s, 1, Len(s) - 1))
    ELSE s

strip(s) == rstrip(lstrip(s))

\* s.split(): the maximal runs of non-whitespace characters of s, in order.
\* cur is the token being read, done the tokens already finished.
RECURSIVE SplitFrom(_, _, _)
SplitFrom(s, cur, done) ==
    IF s = <<>>
    THEN IF cur = <<>> THEN done ELSE Append(done, cur)
    ELSE IF Head(s) \in Whitespace
         THEN SplitFrom(Tail(s), <<>>, IF cur = <<>> THEN done ELSE Append(done, cur))
         ELSE SplitFrom(Tail(s), Append(cur, Head(s)), done)

split(s) == SplitFrom(s, <<>>, <<>>)

\* sep.join(items)
RECURSIVE join(_, _)
join(sep, items) ==
    IF items = <<>> THEN <<>>
    ELSE IF Len(items) = 1 THEN items[1]
    ELSE items[1] \o sep \o join(sep, Tail(items))

----------------------------------------------------------------------------
(* Floats: math.log(x)/math.log(2) and the %10.2f format *)

\* 1.0 in fixed point.
One == 2 ^ FracBits

\* The integer part of log2(n), n >= 1.
FloorLog2(n) == CHOOSE k \in 0..30 : 2 ^ k <= n /\ n < 2 ^ (k + 1)

\* The fractional bits of log2(x / One) for One <= x < 2 * One, most
\* significant first, by repeated squaring: i bits are still to be produced.
RECURSIVE FracLog2(_, _)
FracLog2(x, i) ==
    IF i = 0 THEN 0
    ELSE LET sq == (x * x) \div One
         IN  IF sq >= 2 * One
             THEN 2 ^ (i - 1) + FracLog2(sq \div 2, i - 1)
             ELSE FracLog2(sq, i - 1)

\* n.bit_length() in place of the logarithm: one too many for a power of two.
\* C8 must tell it from log2.
log2_bit_length(n) == (FloorLog2(n) + 1) * One

\* math.log(n)/math.log(2) in fixed point, n >= 1 (math.log(0) raises ValueError:
\* the callers test for it).
log2(n) ==
    LET k == FloorLog2(n)
    IN  k * One + FracLog2((n * One) \div (2 ^ k), FracBits)

\* "%10.2f" % x: x rounded to hundredths, as an integer number of hundredths.
fmt2f(x) == (x * 100 + One \div 2) \div One

----------------------------------------------------------------------------
(* secrets.choice *)

\* The indices secrets.choice may pick in a sequence of n entries.
DrawIdx(n) == IF n <= MaxFullDraw THEN 1..n ELSE {1, n}

\* The entries secrets.choice(seq) may return.
secrets_choice(seq) == {seq[i] : i \in DrawIdx(Len(seq))}

----------------------------------------------------------------------------
(* ultra_password.py *)

DEFAULT_PASSWORD_LEN == 4

CHARS_PER_WORD == 4

default ==
    <<"?", ".", "*", "#", "%", "0", "1", "2", "3", "4", "5", "6", "7", "8", "9",
      "C", "D", "F", "H", "J", "K", "L", "M", "N", "P", "Q", "R", "T", "V", "W",
      "X", "Y">>

symlow ==
    <<".", "/", "-", "+", "=", "0", "1", "2", "3", "4", "5", "6", "7", "8", "9",
      "a", "b", "c", "d", "e", "f", "g", "i", "k", "r", "s", "u", "v", "w", "x",
      "y", "z">>

alpha == CharRange("a", "z")

ALPHA == CharRange("A", "Z")

digit == CharRange("0", "9")

alphanum == alpha \o digit

xdigit == digit \o <<"a", "b", "c", "d", "e", "f">>

Alpha == ALPHA \o alpha

AlphaNum == Alpha \o digit

\* base32 built on alphanum instead of alpha: the digits 2-7 come twice.
\* C2 must tell it from base32.
base32_on_alphanum == alphanum \o <<"2", "3", "4", "5", "6", "7">>

base32 == alpha \o <<"2", "3", "4", "5", "6", "7">>

base58 == translate(AlphaNum, {"O", "0", "I", "l"})

zbase32 == translate(alphanum, {"0", "l", "v", "2"})

bech32 == translate(alphanum, {"1", "b", "i", "0"})

\* The members of the Enum in definition order: name and value.
CharsetBody ==
    << [name |-> "default",  value |-> default],
       [name |-> "symlow",   value |-> symlow],
       [name |-> "alpha",    value |-> alpha],
       [name |-> "ALPHA",    value |-> ALPHA],
       [name |-> "digit",    value |-> digit],
       [name |-> "alphanum", value |-> alphanum],
       [name |-> "xdigit",   value |-> xdigit],
       [name |-> "Alpha",    value |-> Alpha],
       [name |-> "AlphaNum", value |-> AlphaNum],
       [name |-> "base32",   value |-> base32],
       [name |-> "base58",   value |-> base58],
       [name |-> "zbase32",  value |-> zbase32],
       [name |-> "bech32",   value |-> bech32] >>

\* Enum: a name whose value repeats an earlier member's value is an alias of
\* that member, not a member of its own.  Canonical(i) is the index of the
\* member the i-th name denotes.
Canonical(i) == CHOOSE j \in 1..i :
    /\ CharsetBody[j].value = CharsetBody[i].value
    /\ \A h \in 1..(j - 1) : CharsetBody[h].value # CharsetBody[i].value

\* Charset[s]: the member named s (by its canonical name); the lookup raises
\* KeyError for any other s.
CharsetNames == {CharsetBody[i].name : i \in 1..Len(CharsetBody)}

Charset(s) ==
    LET i == CHOOSE i \in 1..Len(CharsetBody) : CharsetBody[i].name = s
    IN  CharsetBody[Canonical(i)]

\* list(Charset): the members, aliases left out.
CharsetList == {Charset(s) : s \in CharsetNames}

\* Charset.from_string(s): the member, or ValueError.
from_string(s) ==
    IF s \in CharsetNames
    THEN [ok |-> TRUE, value |-> Charset(s)]
    ELSE [ok |-> FALSE, value |-> [name |-> "", value |-> <<>>]]

----------------------------------------------------------------------------
(* int() and _strict_positive_int, the same in both scripts *)

\* The value of a sequence of decimal digits and underscores, read left to right.
RECURSIVE DigitsValue(_, _)
DigitsValue(s, acc) ==
    IF s = <<>> THEN acc
    ELSE IF Head(s) = "_" THEN DigitsValue(Tail(s), acc)
    ELSE DigitsValue(Tail(s), acc * 10 + (ord(Head(s)) - ord("0")))

\* Whether s is a run of digits with single underscores between digits only.
IsDigitRun(s) ==
    /\ s # <<>>
    /\ \A i \in 1..Len(s) : s[i] \in Digits \cup {"_"}
    /\ s[1] \in Digits /\ s[Len(s)] \in Digits
    /\ \A i \in 1..(Len(s) - 1) : ~(s[i] = "_" /\ s[i + 1] = "_")

\* int(value) for a str: surrounding whitespace is dropped, then an optional
\* sign and a run of digits; anything else raises ValueError.
int(value) ==
    LET s    == strip(value)
        sign == IF s # <<>> /\ s[1] \in {"+", "-"} THEN s[1] ELSE ""
        body == IF sign = "" THEN s ELSE Tail(s)
    IN  IF IsDigitRun(body)
        THEN [ok |-> TRUE,
              value |-> IF sign = "-" THEN 0 - DigitsValue(body, 0)
                        ELSE DigitsValue(body, 0)]
        ELSE [ok |-> FALSE, value |-> 0]

\* _strict_positive_int with "ivalue < 0" for "ivalue <= 0": 0 is let through.
\* C4 must tell it from _strict_positive_int.
_nonnegative_int(value) ==
    LET r == int(value)
    IN  IF r.ok /\ ~(r.value < 0)
        THEN [ok |-> TRUE, value |-> r.value]
        ELSE [ok |-> FALSE, value |-> 0]

\* _strict_positive_int(value): ivalue, or argparse.ArgumentTypeError.
_strict_positive_int(value) ==
    LET r == int(value)
    IN  IF r.ok /\ ~(r.value <= 0)
        THEN [ok |-> TRUE, value |-> r.value]
        ELSE [ok |-> FALSE, value |-> 0]

----------------------------------------------------------------------------
(* ultra_password.py: parse_args, gen_word, __main__ *)

\* What a run writes to stderr: an argparse error (it follows the usage text),
\* the name of an uncaught exception (it ends the traceback), or validate's
\* message with the duplicated words it lists.
Message(e) == [error |-> e, duped |-> <<>>]

Absent == [given |-> FALSE, value |-> <<>>]

Given(v) == [given |-> TRUE, value |-> v]

\* The texts tried for NUM_WORDS: 0, -1, abc, 1.5, the empty string, 1, 2, +1
\* and 2 between blanks.
NumWordsTexts ==
    { <<"0">>, <<"-", "1">>, <<"a", "b", "c">>, <<"1", ".", "5">>, <<>>,
      <<"1">>, <<"2">>, <<"+", "1">>, <<" ", "2", " ">> }

NumWordsArgs == {Absent} \cup {Given(v) : v \in NumWordsTexts}

\* The names tried for --charset: every registered name and three others.
CharsetArgs ==
    {[given |-> FALSE, value |-> ""]}
        \cup {[given |-> TRUE, value |-> s] :
                s \in CharsetNames \cup {"base64", "DEFAULT", ""}}

\* The command lines explored.  One that leaves NUM_WORDS at its default names
\* no registered charset (it has 16 draws, against at most 8 for the others).
UltraArgvs ==
    {a \in [NUM_WORDS : NumWordsArgs, charset : CharsetArgs, brief : BOOLEAN] :
        a.NUM_WORDS.given \/ ~a.charset.given \/ a.charset.value \notin CharsetNames}

NoArgs == [NUM_WORDS |-> 0, charset |-> [name |-> "", value |-> <<>>],
           wordlist |-> "", brief |-> FALSE]

\* Another member as the default of --charset.  C7 must tell it from
\* DefaultCharset.
DefaultCharset_alphanum == Charset("alphanum")

\* The default of --charset: Charset.default.
DefaultCharset == Charset("default")

\* parse_args(): the Namespace, or the arguments argparse rejects (it reports
\* one of them with the usage text and exits with status 2).
ultra_parse_args(a) ==
    LET nw == IF a.NUM_WORDS.given
              THEN _strict_positive_int(a.NUM_WORDS.value)
              ELSE [ok |-> TRUE, value |-> DEFAULT_PASSWORD_LEN]
        cs == IF a.charset.given
              THEN LET r == from_string(a.charset.value)
                   IN  [ok |-> r.ok /\ r.value \in CharsetList, value |-> r.value]
              ELSE [ok |-> TRUE, value |-> DefaultCharset]
    IN  [ok     |-> nw.ok /\ cs.ok,
         errors |-> (IF nw.ok THEN {} ELSE {"argument NUM_WORDS: invalid strict positive int value"})
                    \cup (IF cs.ok THEN {} ELSE {"argument -c/--charset: invalid from_string value"}),
         args   |-> [NUM_WORDS |-> nw.value, charset |-> cs.value,
                     wordlist |-> "", brief |-> a.brief]]

\* A gen_word that draws range(CHARS_PER_WORD - 1).  C1 must tell it from
\* gen_word.
gen_word_short(cs) == [1..(CHARS_PER_WORD - 1) -> secrets_choice(cs)]

\* gen_word(charset): the words it may return (CHARS_PER_WORD independent draws).
gen_word(cs) == [1..CHARS_PER_WORD -> secrets_choice(cs)]

UltraInit ==
    /\ script = "ultra_password"
    /\ pc = "parse_args"
    /\ argv \in UltraArgvs
    /\ fs = [exists |-> FALSE, lines |-> <<>>]
    /\ args = NoArgs
    /\ num_words = 0
    /\ charset = <<>>
    /\ words = <<>>
    /\ entropy_per_char = 0
    /\ entropy_per_word = 0
    /\ entropy = 0
    /\ pw_entropy = 0
    /\ groups = <<>>
    /\ password = <<>>
    /\ stdout = <<>>
    /\ stderr = <<>>
    /\ exit_status = -1

\* line 105 (argparse exits with status 2 on a rejected argument)
UltraParseArgs ==
    /\ script = "ultra_password"
    /\ pc = "parse_args"
    /\ LET r == ultra_parse_args(argv)
       IN  IF r.ok
           THEN /\ args' = r.args
                /\ pc' = "setup"
                /\ UNCHANGED <<stderr, exit_status>>
           ELSE /\ \E e \in r.errors : stderr' = Append(stderr, Message(e))
                /\ exit_status' = 2
                /\ pc' = "exited"
                /\ UNCHANGED args
    /\ UNCHANGED <<script, argv, fs, num_words, charset, words, entropy_per_char,
                   entropy_per_word, entropy, pw_entropy, groups, password, stdout>>

\* lines 106-112
UltraSetup ==
    /\ script = "ultra_password"
    /\ pc = "setup"
    /\ num_words' = args.NUM_WORDS
    /\ charset' = args.charset.value
    /\ entropy_per_char' = log2(Len(charset'))
    /\ entropy_per_word' = entropy_per_char' * CHARS_PER_WORD
    /\ pw_entropy' = entropy_per_word' * num_words'
    /\ pc' = "generate"
    /\ UNCHANGED <<script, argv, fs, args, words, entropy, groups, password, stdout,
                   stderr, exit_status>>

\* line 113: the generator expression yields one more gen_word(charset)
UltraGenWord ==
    /\ script = "ultra_password"
    /\ pc = "generate"
    /\ Len(groups) < num_words
    /\ \E w \in gen_word(charset) : groups' = Append(groups, w)
    /\ UNCHANGED <<script, pc, argv, fs, args, num_words, charset, words, entropy_per_char,
                   entropy_per_word, entropy, pw_entropy, password, stdout,
                   stderr, exit_status>>

\* line 113: the generator is exhausted and " ".join returns
UltraJoin ==
    /\ script = "ultra_password"
    /\ pc = "generate"
    /\ Len(groups) = num_words
    /\ password' = join(<<" ">>, groups)
    /\ pc' = "print"
    /\ UNCHANGED <<script, argv, fs, args, num_words, charset, words, entropy_per_char,
                   entropy_per_word, entropy, pw_entropy, groups, stdout,
                   stderr, exit_status>>

\* The report of lines 118-131, its floats as formatted by %10.2f.
UltraReport ==
    [Charset |-> charset, Charset_char |-> Len(charset),
     Entropy_bit_char |-> fmt2f(entropy_per_char),
     Entropy_bit_word |-> fmt2f(entropy_per_word),
     Pw_Len_word |-> num_words, Pw_Len_char |-> Len(password),
     Pw_Entropy |-> fmt2f(pw_entropy), Password |-> password]

\* lines 115-131, and the script ends
UltraPrint ==
    /\ script = "ultra_password"
    /\ pc = "print"
    /\ stdout' = Append(stdout, IF args.brief THEN [Password |-> password]
                                ELSE UltraReport)
    /\ exit_status' = 0
    /\ pc' = "done"
    /\ UNCHANGED <<script, argv, fs, args, num_words, charset, words, entropy_per_char,
                   entropy_per_word, entropy, pw_entropy, groups, password, stderr>>

UltraNext ==
    \/ UltraParseArgs
    \/ UltraSetup
    \/ UltraGenWord
    \/ UltraJoin
    \/ UltraPrint

SpecUltra == UltraInit /\ [][UltraNext]_vars

----------------------------------------------------------------------------
(* xkcd_password.py: parse_args, load, validate, __main__ *)

DEFAULT_WORDLIST == "dict/eff_large_wordlist.txt"

\* The lines a wordlist file is made of, each with its line break:
\*   "apple"  "1 apple"  "2 banana"  "3 cherry"  "  x  banana \t"
\*   ""  " \t"  "a b c"
LineChoices ==
    { <<"a", "p", "p", "l", "e", "\n">>,
      <<"1", " ", "a", "p", "p", "l", "e", "\n">>,
      <<"2", " ", "b", "a", "n", "a", "n", "a", "\n">>,
      <<"3", " ", "c", "h", "e", "r", "r", "y", "\n">>,
      <<" ", " ", "x", " ", " ", "b", "a", "n", "a", "n", "a", " ", "\t", "\n">>,
      <<"\n">>,
      <<" ", "\t", "\n">>,
      <<"a", " ", "b", " ", "c", "\n">> }

\* The file at the path given: missing, or up to MaxLines lines.
Files ==
    {[exists |-> FALSE, lines |-> <<>>]}
        \cup {[exists |-> TRUE, lines |-> l] :
                l \in UNION {[1..n -> LineChoices] : n \in 0..MaxLines}}

\* The texts tried for NUM_WORDS: 0, -1, abc, 1, 2.
XkcdNumWordsArgs ==
    {Absent} \cup {Given(v) : v \in {<<"0">>, <<"-", "1">>, <<"a", "b", "c">>,
                                     <<"1">>, <<"2">>}}

XkcdArgvs ==
    [NUM_WORDS : XkcdNumWordsArgs,
     wordlist  : {[given |-> FALSE, value |-> ""],
                  [given |-> TRUE, value |-> "words.txt"]},
     brief     : BOOLEAN]

\* parse_args(): the Namespace, or the arguments argparse rejects.
xkcd_parse_args(a) ==
    LET nw == IF a.NUM_WORDS.given
              THEN _strict_positive_int(a.NUM_WORDS.value)
              ELSE [ok |-> TRUE, value |-> DEFAULT_PASSWORD_LEN]
    IN  [ok     |-> nw.ok,
         errors |-> IF nw.ok THEN {}
                    ELSE {"argument NUM_WORDS: invalid strict positive int value"},
         args   |-> [NUM_WORDS |-> nw.value,
                     charset   |-> [name |-> "", value |-> <<>>],
                     wordlist  |-> IF a.wordlist.given THEN a.wordlist.value
                                   ELSE DEFAULT_WORDLIST,
                     brief     |-> a.brief]]

\* A loop body that always takes tokens[0].  C5 must tell it from LineWord.
LineWord_first(line) ==
    LET tokens == split(strip(line))
    IN  IF Len(tokens) >= 1 THEN [ok |-> TRUE, word |-> tokens[1]]
        ELSE [ok |-> FALSE, word |-> <<>>]

\* The body of load's loop for one line: the word appended, or IndexError
\* when the line has no token.
LineWord(line) ==
    LET tokens == split(strip(line))
    IN  IF Len(tokens) = 2 THEN [ok |-> TRUE, word |-> tokens[2]]
        ELSE IF Len(tokens) >= 1 THEN [ok |-> TRUE, word |-> tokens[1]]
        ELSE [ok |-> FALSE, word |-> <<>>]

\* A loop that skips the lines without a token ("if not tokens: continue").
\* C10 must tell it from LoadLines.
RECURSIVE LoadLines_skip(_, _)
LoadLines_skip(lines, ws) ==
    IF lines = <<>> THEN [ok |-> TRUE, error |-> "", words |-> ws]
    ELSE LET tokens == split(strip(Head(lines)))
         IN  IF tokens = <<>> THEN LoadLines_skip(Tail(lines), ws)
             ELSE LoadLines_skip(Tail(lines),
                                 Append(ws, IF Len(tokens) = 2 THEN tokens[2]
                                            ELSE tokens[1]))

\* load's loop over the lines not yet read; ws is the list built so far.
RECURSIVE LoadLines(_, _)
LoadLines(lines, ws) ==
    IF lines = <<>> THEN [ok |-> TRUE, error |-> "", words |-> ws]
    ELSE LET r == LineWord(Head(lines))
         IN  IF r.ok THEN LoadLines(Tail(lines), Append(ws, r.word))
             ELSE [ok |-> FALSE, error |-> "IndexError", words |-> <<>>]

\* load(path), f the file at path: the words, or the exception raised.
load(f) ==
    IF ~f.exists
    THEN [ok |-> FALSE, error |-> "FileNotFoundError", words |-> <<>>]
    ELSE LoadLines(f.lines, <<>>)

\* Counter(ws): the distinct words in order of first occurrence, each with the
\* number of times it occurs.
Counter(ws) ==
    LET firsts == SelectSeq([i \in 1..Len(ws) |-> i],
                            LAMBDA i : \A j \in 1..(i - 1) : ws[j] # ws[i])
    IN  [k \in 1..Len(firsts) |->
            [word  |-> ws[firsts[k]],
             count |-> Cardinality({i \in 1..Len(ws) : ws[i] = ws[firsts[k]]})]]

\* A duped that collects on "count >= 1": every word is listed.  C3 must tell
\* it from Duped.
Duped_every(wc) == [k \in 1..Len(wc) |-> wc[k].word]

\* The words validate collects in duped: those of wc.items() with count > 1.
Duped(wc) ==
    LET hits == SelectSeq(wc, LAMBDA item : item.count > 1)
    IN  [k \in 1..Len(hits) |-> hits[k].word]

\* validate(words): returns normally (ok), or writes the duplicated words to
\* stderr and calls sys.exit(1).
validate(ws) ==
    LET wc == Counter(ws)
    IN  IF Len(ws) # Len(wc)
        THEN [ok |-> FALSE, duped |-> Duped(wc)]
        ELSE [ok |-> TRUE, duped |-> <<>>]

XkcdInit ==
    /\ script = "xkcd_password"
    /\ pc = "parse_args"
    /\ argv \in XkcdArgvs
    /\ fs \in Files
    /\ args = NoArgs
    /\ num_words = 0
    /\ charset = <<>>
    /\ words = <<>>
    /\ entropy_per_char = 0
    /\ entropy_per_word = 0
    /\ entropy = 0
    /\ pw_entropy = 0
    /\ groups = <<>>
    /\ password = <<>>
    /\ stdout = <<>>
    /\ stderr = <<>>
    /\ exit_status = -1

\* lines 67-68 (argparse exits with status 2 on a rejected argument)
XkcdParseArgs ==
    /\ script = "xkcd_password"
    /\ pc = "parse_args"
    /\ LET r == xkcd_parse_args(argv)
       IN  IF r.ok
           THEN /\ args' = r.args
                /\ num_words' = r.args.NUM_WORDS
                /\ pc' = "load"
                /\ UNCHANGED <<stderr, exit_status>>
           ELSE /\ \E e \in r.errors : stderr' = Append(stderr, Message(e))
                /\ exit_status' = 2
                /\ pc' = "exited"
                /\ UNCHANGED <<args, num_words>>
    /\ UNCHANGED <<script, argv, fs, charset, words, entropy_per_char, entropy_per_word,
                   entropy, pw_entropy, groups, password, stdout>>

\* line 69; an exception load raises is not caught: traceback, exit status 1
XkcdLoad ==
    /\ script = "xkcd_password"
    /\ pc = "load"
    /\ LET r == load(fs)
       IN  IF r.ok
           THEN /\ words' = r.words
                /\ pc' = "validate"
                /\ UNCHANGED <<stderr, exit_status>>
           ELSE /\ stderr' = Append(stderr, Message(r.error))
                /\ exit_status' = 1
                /\ pc' = "exited"
                /\ UNCHANGED words
    /\ UNCHANGED <<script, argv, fs, args, num_words, charset, entropy_per_char,
                   entropy_per_word, entropy, pw_entropy, groups, password, stdout>>

\* line 70
XkcdValidate ==
    /\ script = "xkcd_password"
    /\ pc = "validate"
    /\ LET r == validate(words)
       IN  IF r.ok
           THEN /\ pc' = "entropy"
                /\ UNCHANGED <<stderr, exit_status>>
           ELSE /\ stderr' = Append(stderr, [error |-> "ERROR: duped word detected",
                                             duped |-> r.duped])
                /\ exit_status' = 1
                /\ pc' = "exited"
    /\ UNCHANGED <<script, argv, fs, args, num_words, charset, words, entropy_per_char,
                   entropy_per_word, entropy, pw_entropy, groups, password, stdout>>

\* lines 72-73; math.log(0) raises ValueError, which is not caught
XkcdEntropy ==
    /\ script = "xkcd_password"
    /\ pc = "entropy"
    /\ IF Len(words) = 0
       THEN /\ stderr' = Append(stderr, Message("ValueError"))
            /\ exit_status' = 1
            /\ pc' = "exited"
            /\ UNCHANGED <<entropy, pw_entropy>>
       ELSE /\ entropy' = log2(Len(words))
            /\ pw_entropy' = num_words * entropy'
            /\ pc' = "generate"
            /\ UNCHANGED <<stderr, exit_status>>
    /\ UNCHANGED <<script, argv, fs, args, num_words, charset, words, entropy_per_char,
                   entropy_per_word, groups, password, stdout>>

\* line 74: the generator expression yields one more secrets.choice(words)
XkcdChoice ==
    /\ script = "xkcd_password"
    /\ pc = "generate"
    /\ Len(groups) < num_words
    /\ \E w \in secrets_choice(words) : groups' = Append(groups, w)
    /\ UNCHANGED <<script, pc, argv, fs, args, num_words, charset, words, entropy_per_char,
                   entropy_per_word, entropy, pw_entropy, password, stdout,
                   stderr, exit_status>>

\* line 74: the generator is exhausted and ' '.join returns
XkcdJoin ==
    /\ script = "xkcd_password"
    /\ pc = "generate"
    /\ Len(groups) = num_words
    /\ password' = join(<<" ">>, groups)
    /\ pc' = "print"
    /\ UNCHANGED <<script, argv, fs, args, num_words, charset, words, entropy_per_char,
                   entropy_per_word, entropy, pw_entropy, groups, stdout,
                   stderr, exit_status>>

\* The report of lines 79-87, its floats as formatted by %10.2f.
XkcdReport ==
    [Dictionary |-> args.wordlist, Dict_Len |-> Len(words),
     Entropy_bit_word |-> fmt2f(entropy),
     Pw_Len_word |-> num_words, Pw_Len_char |-> Len(password),
     Pw_Entropy |-> fmt2f(pw_entropy), Password |-> password]

\* lines 76-87, and the script ends
XkcdPrint ==
    /\ script = "xkcd_password"
    /\ pc = "print"
    /\ stdout' = Append(stdout, IF args.brief THEN [Password |-> password]
                                ELSE XkcdReport)
    /\ exit_status' = 0
    /\ pc' = "done"
    /\ UNCHANGED <<script, argv, fs, args, num_words, charset, words, entropy_per_char,
                   entropy_per_word, entropy, pw_entropy, groups, password, stderr>>

XkcdNext ==
    \/ XkcdParseArgs
    \/ XkcdLoad
    \/ XkcdValidate
    \/ XkcdEntropy
    \/ XkcdChoice
    \/ XkcdJoin
    \/ XkcdPrint

SpecXkcd == XkcdInit /\ [][XkcdNext]_vars

----------------------------------------------------------------------------
(* Either script is run once *)

Init == UltraInit \/ XkcdInit

Next == UltraNext \/ XkcdNext

Spec == Init /\ [][Next]_vars

----------------------------------------------------------------------------
(* Vocabulary of the properties *)

\* The set of entries of a sequence.
Range(s) == {s[i] : i \in 1..Len(s)}

NoRepeats(s) == Cardinality(Range(s)) = Len(s)

\* s cut at every single space: one field more than s has spaces.
RECURSIVE FieldsFrom(_, _, _)
FieldsFrom(s, cur, done) ==
    IF s = <<>> THEN Append(done, cur)
    ELSE IF Head(s) = " " THEN FieldsFrom(Tail(s), <<>>, Append(done, cur))
    ELSE FieldsFrom(Tail(s), Append(cur, Head(s)), done)

Fields(s) == FieldsFrom(s, <<>>, <<>>)

Ultra == script = "ultra_password"

Xkcd == script = "xkcd_password"

\* The password has been assembled (and, at "done", printed).
Assembled == pc \in {"print", "done"}

\* Nothing was generated and nothing was printed.
NothingGenerated == groups = <<>> /\ password = <<>> /\ stdout = <<>>

----------------------------------------------------------------------------
(* C1 *)

\* C1: for every group count N > 0, a successful run produces a password of
\* exactly N groups joined by exactly one space each, in the order drawn.  In
\* ultra_password every group is 4 symbols of the selected charset, so the
\* password has 5*N-1 characters; in xkcd_password every group is one entry
\* of the loaded wordlist.  The printed password is that password.
C1_PasswordShape ==
    Assembled =>
        /\ num_words > 0
        /\ Len(groups) = num_words
        /\ Fields(password) = groups
        /\ Ultra =>
            /\ Len(password) = 5 * num_words - 1
            /\ \A k \in 1..num_words :
                /\ Len(groups[k]) = 4
                /\ \A j \in 1..4 :
                    /\ groups[k][j] \in Range(charset)
                    /\ password[5 * (k - 1) + j] = groups[k][j]
            /\ \A k \in 1..(num_words - 1) : password[5 * k] = " "
        /\ Xkcd =>
            /\ words # <<>> /\ NoRepeats(words)
            /\ \A k \in 1..num_words : groups[k] \in Range(words)
        /\ pc = "done" => Len(stdout) = 1 /\ stdout[1].Password = password

\* A finished ultra_password run of two different groups over base58.
C1_Witness ==
    /\ Ultra /\ pc = "done"
    /\ num_words = 2
    /\ charset = base58
    /\ groups[1] # groups[2]

----------------------------------------------------------------------------
(* C2 *)

\* The thirteen names the registry is to hold.
RegisteredNames ==
    {"default", "symlow", "alpha", "ALPHA", "digit", "alphanum", "xdigit",
     "Alpha", "AlphaNum", "base32", "base58", "zbase32", "bech32"}

\* The sequence written in the Enum's body under name s.
BodyValue(s) ==
    CharsetBody[CHOOSE i \in 1..Len(CharsetBody) : CharsetBody[i].name = s].value

\* The charset has been selected.
Selected == Ultra /\ pc \in {"generate", "print", "done"}

\* The registry as the Enum's body defines it: thirteen names, each resolving
\* to its own sequence of at least 2 symbols, none of them twice, and no two
\* names to the same sequence.
C2_Registry ==
    /\ CharsetNames = RegisteredNames
    /\ Len(CharsetBody) = 13
    /\ \A s \in RegisteredNames :
        /\ Len(BodyValue(s)) >= 2
        /\ NoRepeats(BodyValue(s))
        /\ Charset(s) = [name |-> s, value |-> BodyValue(s)]
        /\ \A s2 \in RegisteredNames : BodyValue(s2) = BodyValue(s) => s2 = s

\* C2: each of the thirteen registered charsets is a sequence of at least 2
\* symbols in which no symbol occurs twice, each registered name resolves to
\* its own sequence, different from every other name's, and the charset a run
\* selects is such a sequence.
C2_CharsetsWellFormed ==
    /\ C2_Registry
    /\ Selected =>
        /\ args.charset.name \in RegisteredNames
        /\ charset = BodyValue(args.charset.name)
        /\ Len(charset) >= 2 /\ NoRepeats(charset)

\* A finished run over the largest charset, named on the command line.
C2_Witness ==
    /\ Ultra /\ pc = "done"
    /\ argv.charset = [given |-> TRUE, value |-> "AlphaNum"]
    /\ Len(charset) = 62

----------------------------------------------------------------------------
(* C4 *)

\* What each NUM_WORDS text tried denotes: the strictly positive integer, or 0
\* for a text that denotes none.
C4_Denotes(text) ==
    CASE text = <<"1">> -> 1
      [] text = <<"2">> -> 2
      [] text = <<"+", "1">> -> 1
      [] text = <<" ", "2", " ">> -> 2
      [] OTHER -> 0

C4_BadNumWords == argv.NUM_WORDS.given /\ C4_Denotes(argv.NUM_WORDS.value) = 0

C4_BadCharset == Ultra /\ argv.charset.given /\ argv.charset.value \notin RegisteredNames

C4_ExpectedNumWords ==
    IF argv.NUM_WORDS.given THEN C4_Denotes(argv.NUM_WORDS.value) ELSE 4

\* C4: when NUM_WORDS is not a strictly positive integer or (ultra_password)
\* --charset is not a registered name, argument parsing fails with an error
\* on stderr and a non-zero exit status before any draw, and no password is
\* generated or printed; otherwise parsing yields that integer and that
\* charset's sequence.
C4_ArgumentParsing ==
    pc # "parse_args" =>
        IF C4_BadNumWords \/ C4_BadCharset
        THEN /\ pc = "exited"
             /\ exit_status = 2
             /\ Len(stderr) = 1
             /\ NothingGenerated
             /\ num_words = 0 /\ charset = <<>> /\ words = <<>>
        ELSE /\ exit_status # 2
             /\ args.NUM_WORDS = C4_ExpectedNumWords
             /\ (Xkcd \/ pc # "setup") => num_words = C4_ExpectedNumWords
             /\ Ultra /\ argv.charset.given =>
                    args.charset = [name  |-> argv.charset.value,
                                    value |-> BodyValue(argv.charset.value)]
             /\ Selected /\ argv.charset.given =>
                    charset = BodyValue(argv.charset.value)

\* ultra_password given NUM_WORDS 0 has exited with status 2.
C4_Witness ==
    /\ Ultra /\ pc = "exited" /\ exit_status = 2
    /\ argv.NUM_WORDS = Given(<<"0">>)
    /\ argv.charset = [given |-> TRUE, value |-> "bech32"]

----------------------------------------------------------------------------
(* C6 *)

\* The alphabets of the encodings the Enum's comments refer to.
Base58Reference ==
    <<"1", "2", "3", "4", "5", "6", "7", "8", "9", "A", "B", "C", "D", "E", "F",
      "G", "H", "J", "K", "L", "M", "N", "P", "Q", "R", "S", "T", "U", "V", "W",
      "X", "Y", "Z", "a", "b", "c", "d", "e", "f", "g", "h", "i", "j", "k", "m",
      "n", "o", "p", "q", "r", "s", "t", "u", "v", "w", "x", "y", "z">>

ZBase32Reference ==
    <<"y", "b", "n", "d", "r", "f", "g", "8", "e", "j", "k", "m", "c", "p", "q",
      "x", "o", "t", "1", "u", "w", "i", "s", "z", "a", "3", "4", "5", "h", "7",
      "6", "9">>

Bech32Reference ==
    <<"q", "p", "z", "r", "y", "9", "x", "8", "g", "f", "2", "t", "v", "d", "w",
      "0", "s", "3", "j", "n", "5", "4", "k", "h", "c", "e", "6", "m", "u", "a",
      "7", "l">>

\* C6: the characters stripped from the base alphabet are exactly those the
\* named reference encoding leaves out (base58: 0 O I l; z-base-32: 0 l v 2;
\* bech32: 1 b i o), so the charset's symbols are the reference alphabet's.
C6_ReferenceAlphabets ==
    Ultra /\ pc = "done" =>
        /\ args.charset.name = "base58" =>
            /\ Range(charset) = Range(Base58Reference)
            /\ Range(AlphaNum) \ Range(charset) = {"0", "O", "I", "l"}
        /\ args.charset.name = "zbase32" =>
            /\ Range(charset) = Range(ZBase32Reference)
            /\ Range(alphanum) \ Range(charset) = {"0", "l", "v", "2"}
        /\ args.charset.name = "bech32" =>
            /\ Range(charset) = Range(Bech32Reference)
            /\ Range(alphanum) \ Range(charset) = {"1", "b", "i", "o"}

----------------------------------------------------------------------------
(* C7 *)

\* --charset is not given and the charset has been selected.
C7_DefaultRun == Selected /\ ~argv.charset.given

\* C7 as stated: without --charset the charset named default is used, and it
\* has exactly 31 symbols.
C7_Default31 ==
    C7_DefaultRun => args.charset.name = "default" /\ Len(charset) = 31

\* C7 as amended: without --charset the charset named default is used, and it
\* has exactly 32 symbols.
C7_Default32 ==
    C7_DefaultRun =>
        /\ args.charset.name = "default"
        /\ charset = BodyValue("default")
        /\ Len(charset) = 32 /\ Cardinality(Range(charset)) = 32

\* A finished run without --charset.
C7_Witness == C7_DefaultRun /\ pc = "done" /\ ~argv.NUM_WORDS.given

----------------------------------------------------------------------------
(* C9 *)

\* The header comment's "modified password charset (32 symbols)".
DocModified ==
    {"?", ".", "*", "#", "%"} \cup Digits
        \cup {"C", "D", "F", "H", "J", "K", "L", "M", "N", "P",
              "Q", "R", "T", "V", "W", "X", "Y"}

\* The header comment's "symbol and lowercase variation (32 symbols)".
DocSymlow ==
    {".", "/", "-", "+", "="} \cup Digits
        \cup {"a", "b", "c", "d", "e", "f", "i", "m", "n", "r",
              "s", "u", "v", "w", "x", "y", "z"}

\* C9: the default and symlow charsets hold exactly the symbols the header
\* comment documents, 32 each.
C9_DocumentedCharsets ==
    Ultra /\ pc = "done" =>
        /\ args.charset.name = "default" =>
            Len(charset) = 32 /\ Range(charset) = DocModified
        /\ args.charset.name = "symlow" =>
            Len(charset) = 32 /\ Range(charset) = DocSymlow

----------------------------------------------------------------------------
(* C3 *)

\* load has returned its list (xkcd_password).
Loaded ==
    /\ Xkcd
    /\ \/ pc \in {"validate", "entropy", "generate", "print", "done"}
       \/ pc = "exited" /\ exit_status = 1 /\ stderr[1].error \notin {"IndexError", "FileNotFoundError"}

\* validate has been called and is over.
Validated == Loaded /\ pc # "validate"

\* The words that occur more than once in ws.
Repeated(ws) == {w \in Range(ws) : Cardinality({i \in 1..Len(ws) : ws[i] = w}) > 1}

\* The run was ended by validate's message.
DupedExit ==
    /\ pc = "exited" /\ exit_status = 1
    /\ Len(stderr) = 1 /\ stderr[1].error = "ERROR: duped word detected"

\* C3: when the loaded sequence holds a word more than once, validation, run
\* after loading and before any draw, reports every word whose count exceeds
\* 1, each once and no other word, and ends the process with exit status 1:
\* no password is generated or printed.  When no word is repeated, validation
\* reports nothing and hands the unchanged sequence on to generation.
C3_Validation ==
    Validated =>
        IF Repeated(words) # {}
        THEN /\ DupedExit
             /\ Range(stderr[1].duped) = Repeated(words)
             /\ Len(stderr[1].duped) = Cardinality(Repeated(words))
             /\ NothingGenerated
        ELSE /\ ~DupedExit
             /\ Len(words) = Len(fs.lines)
             /\ pc = "exited" => words = <<>> /\ stderr[1].error = "ValueError"
             /\ pc # "exited" => stderr = <<>> /\ exit_status \in {-1, 0}

\* "apple" twice and "banana" once: only apple is reported.
C3_Witness ==
    /\ DupedExit
    /\ Len(words) = 3
    /\ stderr[1].duped = << <<"a", "p", "p", "l", "e">> >>

----------------------------------------------------------------------------
(* C5 *)

\* The lines of one or two tokens among those tried, with the word each is
\* to yield.
C5_Word(line) ==
    CASE line = <<"a", "p", "p", "l", "e", "\n">> -> <<"a", "p", "p", "l", "e">>
      [] line = <<"1", " ", "a", "p", "p", "l", "e", "\n">> -> <<"a", "p", "p", "l", "e">>
      [] line = <<"2", " ", "b", "a", "n", "a", "n", "a", "\n">> -> <<"b", "a", "n", "a", "n", "a">>
      [] line = <<"3", " ", "c", "h", "e", "r", "r", "y", "\n">> -> <<"c", "h", "e", "r", "r", "y">>
      [] line = <<" ", " ", "x", " ", " ", "b", "a", "n", "a", "n", "a", " ", "\t", "\n">>
            -> <<"b", "a", "n", "a", "n", "a">>
      [] OTHER -> <<>>

\* load has been called and is over, whether it returned or raised.
LoadOver == Xkcd /\ pc \notin {"parse_args", "load"} /\ exit_status # 2

\* C5: for a file whose every line is one word or two whitespace-separated
\* tokens, with any whitespace around them, load returns one word per line in
\* file order: the sole token, or the second of two (the first is not looked
\* at), duplicates kept.
C5_Load ==
    LoadOver /\ fs.exists /\ (\A i \in 1..Len(fs.lines) : C5_Word(fs.lines[i]) # <<>>) =>
        /\ Loaded
        /\ Len(words) = Len(fs.lines)
        /\ \A i \in 1..Len(words) : words[i] = C5_Word(fs.lines[i])

\* "1 apple", "2 banana", "3 cherry" has yielded apple, banana, cherry.
C5_Witness ==
    /\ Xkcd /\ pc = "done"
    /\ fs.lines = << <<"1", " ", "a", "p", "p", "l", "e", "\n">>,
                     <<"2", " ", "b", "a", "n", "a", "n", "a", "\n">>,
                     <<"3", " ", "c", "h", "e", "r", "r", "y", "\n">> >>
    /\ words = << <<"a", "p", "p", "l", "e">>,
                  <<"b", "a", "n", "a", "n", "a">>,
                  <<"c", "h", "e", "r", "r", "y">> >>

----------------------------------------------------------------------------
(* C8 *)

\* The size of the selection space and the units drawn per group.
C8_Size == IF Ultra THEN Len(charset) ELSE Len(words)

C8_Units == IF Ultra THEN 4 ELSE 1

\* C8: the total entropy reported is log2(size) * units-per-group * N, with 4
\* units per group in ultra_password and 1 in xkcd_password, whatever was
\* drawn; a 32-symbol charset is reported at 5.00 bits per symbol, the default
\* run (N = 4, 16 symbols) at 80.00 bits, and 2^k words with N words at k*N
\* bits.  (Reported figures are in hundredths of a bit.)
C8_Entropy ==
    /\ Assembled => pw_entropy = log2(C8_Size) * C8_Units * num_words
    /\ pc = "done" /\ ~args.brief =>
        /\ stdout[1].Pw_Entropy = fmt2f(log2(C8_Size) * C8_Units * num_words)
        /\ \A k \in 0..6 :
              C8_Size = 2 ^ k => stdout[1].Pw_Entropy = 100 * k * C8_Units * num_words
        /\ Ultra /\ Len(charset) = 32 => stdout[1].Entropy_bit_char = 500
        /\ Ultra /\ Len(charset) = 32 /\ num_words = 4 =>
              /\ Len(SelectSeq(password, LAMBDA c : c # " ")) = 16
              /\ stdout[1].Pw_Entropy = 8000

\* The default run of ultra_password has reported 80.00 bits.
C8_Witness ==
    /\ Ultra /\ pc = "done" /\ ~args.brief
    /\ ~argv.NUM_WORDS.given /\ ~argv.charset.given
    /\ stdout[1].Pw_Entropy = 8000

----------------------------------------------------------------------------
(* C10 *)

\* The lines without a token among those tried, and the line of three tokens.
C10_Blank == { <<"\n">>, <<" ", "\t", "\n">> }

C10_ThreeTokens == <<"a", " ", "b", " ", "c", "\n">>

\* C10: load drops no line: it returns as many words as the file has lines,
\* or aborts.  A line without a token makes it fail with an uncaught error, so
\* that validation and generation never run and nothing is printed; a line of
\* three or more tokens yields its first token.
C10_LoadDropsNoLine ==
    LoadOver /\ fs.exists =>
        IF \E i \in 1..Len(fs.lines) : fs.lines[i] \in C10_Blank
        THEN /\ pc = "exited" /\ exit_status = 1
             /\ stderr = <<Message("IndexError")>>
             /\ words = <<>>
             /\ NothingGenerated
        ELSE /\ Loaded
             /\ Len(words) = Len(fs.lines)
             /\ \A i \in 1..Len(fs.lines) :
                   fs.lines[i] = C10_ThreeTokens => words[i] = <<"a">>

\* A file whose second line is blank has ended the run in load.
C10_Witness ==
    /\ Xkcd /\ pc = "exited"
    /\ Len(fs.lines) = 3 /\ fs.lines[2] = <<"\n">> /\ fs.lines[3] = C10_ThreeTokens
    /\ stderr = <<Message("IndexError")>>

====
